---- MODULE Spec2Model ----
(***************************************************************************)
(* Model of the PA1010D NMEA driver (src/pA1010D_GPS.py).                  *)
(*                                                                         *)
(* Text is modelled with TLA+ strings: Len, \o, SubSeq, Head and Tail act  *)
(* on them character by character.  The character "#" stands for a byte    *)
(* that is not part of a valid UTF-8 sequence (the alphabet has no genuine *)
(* '#').  Python floats are modelled exactly, as integers in a fixed unit: *)
(* a float parsed from text is a count of 1/10000; a decimal-degree        *)
(* coordinate is a count of 1/600000 degree (1/10000 of a minute); a speed *)
(* in km/h is a count of 1/10000000.  Optional values are sequences: <<>>  *)
(* is Python's None and <<v>> is the value v.                              *)
(***************************************************************************)
EXTENDS Integers, Sequences, FiniteSets, TLC

\* ------------------------------------------------------------------------
\* Bounds of the model
\* ------------------------------------------------------------------------

\* Largest number of characters the driver's buffer may hold after a read.
MaxBuf == 90

\* ------------------------------------------------------------------------
\* Python values
\* ------------------------------------------------------------------------

None == <<>>

Some(v) == <<v>>

\* Number of digits kept after the decimal point of a parsed float.
FracDigits == 4

\* 10 ** FracDigits: the count that stands for the float 1.0.
Unit == 10000

\* The outcome of a call: the value returned, or the exception raised (exc is
\* "none" on a normal return, and val is then the value).
Ret(v) == [exc |-> "none", val |-> v]

Raise(e, dummy) == [exc |-> e, val |-> dummy]

\* A finite float, an infinity (v is its sign) or a NaN.
Num(v) == [kind |-> "num", v |-> v]

Inf(sign) == [kind |-> "inf", v |-> sign]

NaN == [kind |-> "nan", v |-> 0]

\* ------------------------------------------------------------------------
\* Characters and strings
\* ------------------------------------------------------------------------

\* s[i] of Python, 1-based here.
Ch(s, i) == SubSeq(s, i, i)

\* The character codes of the model's alphabet.
Codes ==
    ("\t" :> 9) @@ ("\n" :> 10) @@ ("\r" :> 13) @@ (" " :> 32) @@ ("$" :> 36) @@
    ("*" :> 42) @@ ("+" :> 43) @@ ("," :> 44) @@ ("-" :> 45) @@ ("." :> 46) @@
    ("0" :> 48) @@ ("1" :> 49) @@ ("2" :> 50) @@ ("3" :> 51) @@ ("4" :> 52) @@
    ("5" :> 53) @@ ("6" :> 54) @@ ("7" :> 55) @@ ("8" :> 56) @@ ("9" :> 57) @@
    ("A" :> 65) @@ ("B" :> 66) @@ ("C" :> 67) @@ ("D" :> 68) @@ ("E" :> 69) @@
    ("F" :> 70) @@ ("G" :> 71) @@ ("L" :> 76) @@ ("M" :> 77) @@ ("N" :> 78) @@
    ("P" :> 80) @@ ("R" :> 82) @@ ("S" :> 83) @@ ("V" :> 86) @@ ("W" :> 87) @@
    ("X" :> 88) @@ ("Z" :> 90) @@ ("a" :> 97) @@ ("b" :> 98) @@ ("c" :> 99) @@
    ("d" :> 100) @@ ("e" :> 101) @@ ("f" :> 102) @@ ("i" :> 105) @@ ("n" :> 110) @@
    ("x" :> 120) @@ ("y" :> 121)

\* ord(c)
Ord(c) == Codes[c]

\* str.isspace() on the alphabet: the characters str.strip() removes.
IsSpace(c) == c \in {" ", "\t", "\r", "\n"}

IsDigit(c) == c \in {"0", "1", "2", "3", "4", "5", "6", "7", "8", "9"}

DigitVal(c) == Ord(c) - 48

IsHexDigit(c) ==
    IsDigit(c) \/ c \in {"A", "B", "C", "D", "E", "F", "a", "b", "c", "d", "e", "f"}

HexVal(c) ==
    IF IsDigit(c) THEN DigitVal(c)
    ELSE IF c \in {"A", "B", "C", "D", "E", "F"} THEN Ord(c) - 55
    ELSE Ord(c) - 87

\* The 1-based positions of c in s, and the smallest of a set of positions.
Positions(s, c) == {i \in 1..Len(s) : Ch(s, i) = c}

MinOf(P) == CHOOSE p \in P : \A q \in P : p <= q

\* c in s
Contains(s, c) == Positions(s, c) # {}

\* 1-based position of the first c in s (s.find(c) + 1); 0 when absent.
Find(s, c) ==
    LET First(P) == IF P = {} THEN 0 ELSE MinOf(P)
    IN  First(Positions(s, c))

\* s.startswith(p)
StartsWith(s, p) == Len(s) >= Len(p) /\ SubSeq(s, 1, Len(p)) = p

\* s[n:] with n a 0-based Python index.
From(s, n) == SubSeq(s, n + 1, Len(s))

\* s.lstrip(), s.rstrip(), s.strip()
RECURSIVE LStrip(_)
LStrip(s) == IF s # "" /\ IsSpace(Head(s)) THEN LStrip(Tail(s)) ELSE s

RECURSIVE RStrip(_)
RStrip(s) ==
    IF s # "" /\ IsSpace(Ch(s, Len(s))) THEN RStrip(SubSeq(s, 1, Len(s) - 1)) ELSE s

Strip(s) == RStrip(LStrip(s))

\* The pieces of s from position start on, P being the positions of the
\* separators in s.
RECURSIVE SplitFrom(_, _, _)
SplitFrom(s, P, start) ==
    LET Cut(p) == <<SubSeq(s, start, p - 1)>> \o SplitFrom(s, P, p + 1)
    IN  IF \A p \in P : p < start THEN <<SubSeq(s, start, Len(s))>>
        ELSE Cut(MinOf({p \in P : p >= start}))

\* s.split(sep): the sequence of the pieces between the separators.
Split(s, sep) == SplitFrom(s, Positions(s, sep), 1)

\* s.split(sep, 1): the text before the first separator and the text after it.
Split1(s, sep) ==
    LET At(i) == <<SubSeq(s, 1, i - 1), From(s, i)>>
    IN  At(Find(s, sep))

\* ------------------------------------------------------------------------
\* Integer helpers
\* ------------------------------------------------------------------------

\* a ^ b of Python on non-negative integers.
RECURSIVE Xor(_, _)
Xor(a, b) ==
    IF a = 0 THEN b
    ELSE IF b = 0 THEN a
    ELSE (((a % 2) + (b % 2)) % 2) + 2 * Xor(a \div 2, b \div 2)

RECURSIVE Pow10(_)
Pow10(n) == IF n = 0 THEN 1 ELSE 10 * Pow10(n - 1)

\* int(x) on a float given as the quotient n / d (d > 0): truncation toward 0.
TruncDiv(n, d) == IF n >= 0 THEN n \div d ELSE -((-n) \div d)

\* Value of a string of decimal digits (0 for the empty string).
RECURSIVE DigitsVal(_)
DigitsVal(s) ==
    IF s = "" THEN 0
    ELSE 10 * DigitsVal(SubSeq(s, 1, Len(s) - 1)) + DigitVal(Ch(s, Len(s)))

RECURSIVE HexDigitsVal(_)
HexDigitsVal(s) ==
    IF s = "" THEN 0
    ELSE 16 * HexDigitsVal(SubSeq(s, 1, Len(s) - 1)) + HexVal(Ch(s, Len(s)))

AllDigits(s) == \A i \in 1..Len(s) : IsDigit(Ch(s, i))

AllHexDigits(s) == \A i \in 1..Len(s) : IsHexDigit(Ch(s, i))

\* The sign of a numeric literal and the text after it.
SignOf(s) == IF s # "" /\ Head(s) = "-" THEN -1 ELSE 1

Unsigned(s) == IF s # "" /\ Head(s) \in {"+", "-"} THEN Tail(s) ELSE s

\* int(s): None stands for ValueError.  Grammar: optional surrounding
\* whitespace, optional sign, one or more digits.
ParseInt(s) ==
    LET Digits(t, sg) == IF t # "" /\ AllDigits(t) THEN Some(sg * DigitsVal(t)) ELSE None
        Literal(u) == Digits(Unsigned(u), SignOf(u))
    IN  Literal(Strip(s))

\* int(s, 16): None stands for ValueError.  Grammar: optional surrounding
\* whitespace, optional sign, optional 0x / 0X prefix, one or more hex digits.
ParseHex(s) ==
    LET Digits(t, sg) == IF t # "" /\ AllHexDigits(t) THEN Some(sg * HexDigitsVal(t)) ELSE None
        Prefixed(t, sg) ==
            Digits(IF StartsWith(t, "0x") \/ StartsWith(t, "0X") THEN From(t, 2) ELSE t, sg)
        Literal(u) == Prefixed(Unsigned(u), SignOf(u))
    IN  Literal(Strip(s))

\* float(s): None stands for ValueError.  Grammar: optional surrounding
\* whitespace, optional sign, then "inf", "nan", or digits with at most one
\* "." and at least one digit.  Digits beyond FracDigits are dropped.
ParseFloat(s) ==
    LET Frac(fk) == DigitsVal(fk) * Pow10(FracDigits - Len(fk))
        Value(ip, fp, sg) ==
            IF AllDigits(ip) /\ AllDigits(fp) /\ Len(ip) + Len(fp) > 0
            THEN Some(Num(sg * (DigitsVal(ip) * Unit
                                + Frac(SubSeq(fp, 1, IF Len(fp) < FracDigits
                                                     THEN Len(fp) ELSE FracDigits)))))
            ELSE None
        Decimal(t, dot, sg) ==
            Value(IF dot = 0 THEN t ELSE SubSeq(t, 1, dot - 1),
                  IF dot = 0 THEN "" ELSE From(t, dot), sg)
        Unsign(t, sg) ==
            IF t = "inf" THEN Some(Inf(sg))
            ELSE IF t = "nan" THEN Some(NaN)
            ELSE Decimal(t, Find(t, "."), sg)
        Literal(u) == Unsign(Unsigned(u), SignOf(u))
    IN  Literal(Strip(s))

\* Decimal digits of a non-negative integer.
RECURSIVE IntToStr(_)
IntToStr(n) ==
    IF n < 10 THEN Ch("0123456789", n + 1)
    ELSE IntToStr(n \div 10) \o Ch("0123456789", (n % 10) + 1)

RECURSIVE ZeroPad(_, _)
ZeroPad(s, width) == IF Len(s) >= width THEN s ELSE ZeroPad("0" \o s, width)

\* f"{n}"
FormatD(n) == IF n < 0 THEN "-" \o IntToStr(-n) ELSE IntToStr(n)

\* f"{n:02d}": the sign counts in the width of 2.
Format02d(n) == IF n < 0 THEN "-" \o ZeroPad(IntToStr(-n), 1) ELSE ZeroPad(IntToStr(n), 2)

\* f"{x:06.3f}" of a float: three decimals, rounded to nearest (a tie goes
\* away from zero), zero-padded to six characters, sign included.
Format063f(x) ==
    LET Text(m) == IntToStr(m \div 1000) \o "." \o ZeroPad(IntToStr(m % 1000), 3)
        Rounded(a) == Text((a * 1000 + (Unit \div 2)) \div Unit)
    IN  IF x.kind = "nan" THEN "000nan"
        ELSE IF x.kind = "inf" THEN (IF x.v < 0 THEN "-00inf" ELSE "000inf")
        ELSE IF x.v < 0 THEN "-" \o ZeroPad(Rounded(-x.v), 5)
        ELSE ZeroPad(Rounded(x.v), 6)

\* ------------------------------------------------------------------------
\* PA1010D: field parsers
\* ------------------------------------------------------------------------

\* XOR of ord(char) over the characters of data.
RECURSIVE XorChars(_)
XorChars(data) ==
    IF data = "" THEN 0
    ELSE IF Len(data) = 1 THEN Ord(data)
    ELSE Xor(XorChars(SubSeq(data, 1, Len(data) \div 2)),
             XorChars(From(data, Len(data) \div 2)))

\* _checksum_valid without the comparison: any checksum text that reads as
\* a hex number is accepted.
_checksum_valid_any_hex(sentence) ==
    LET Unpack(parts) ==
            IF Len(parts) # 2 THEN Raise("ValueError", FALSE)
            ELSE Ret(ParseHex(parts[2]) # None)
    IN  IF ~Contains(sentence, "*") THEN Ret(FALSE)
        ELSE Unpack(Split(sentence, "*"))

\* _checksum_valid: its result, or the ValueError of unpacking a split into
\* other than two parts (the unpacking is outside the try).
_checksum_valid(sentence) ==
    LET Compare(calculated, expected) ==
            IF expected = None THEN Ret(FALSE) ELSE Ret(calculated = expected[1])
        Unpack(parts) ==
            IF Len(parts) # 2 THEN Raise("ValueError", FALSE)
            ELSE Compare(XorChars(From(parts[1], 1)), ParseHex(parts[2]))
    IN  IF ~Contains(sentence, "*") THEN Ret(FALSE)
        ELSE Unpack(Split(sentence, "*"))

\* _parse_coordinate: None, or the decimal degrees in units of 1/(60*Unit)
\* degree; int() of an infinity raises OverflowError, which is not caught.
_parse_coordinate(coord_str, direction) ==
    LET Signed(decimal) ==
            IF direction \in {"S", "W"} THEN Ret(Some(-decimal)) ELSE Ret(Some(decimal))
        Decimal(value, degrees) ==
            Signed(degrees * 60 * Unit + (value - (degrees * 100 * Unit)))
        Convert(f) ==
            IF f = None THEN Ret(None)
            ELSE IF f[1].kind = "inf" THEN Raise("OverflowError", None)
            ELSE IF f[1].kind = "nan" THEN Ret(None)
            ELSE Decimal(f[1].v, TruncDiv(f[1].v, 100 * Unit))
    IN  IF coord_str = "" \/ direction = "" THEN Ret(None)
        ELSE Convert(ParseFloat(coord_str))

\* _parse_time: None or the text "HH:MM:SS.sss".
_parse_time(time_str) ==
    LET Text(hours, minutes, seconds) ==
            IF hours = None \/ minutes = None \/ seconds = None THEN None
            ELSE Some(Format02d(hours[1]) \o ":" \o Format02d(minutes[1])
                      \o ":" \o Format063f(seconds[1]))
    IN  IF time_str = "" \/ Len(time_str) < 6 THEN None
        ELSE Text(ParseInt(SubSeq(time_str, 1, 2)), ParseInt(SubSeq(time_str, 3, 4)),
                  ParseFloat(From(time_str, 4)))

\* _parse_date: None or the text "YYYY-MM-DD".
_parse_date(date_str) ==
    LET Text(day, month, yy) ==
            IF day = None \/ month = None \/ yy = None THEN None
            ELSE Some(FormatD(2000 + yy[1]) \o "-" \o Format02d(month[1])
                      \o "-" \o Format02d(day[1]))
    IN  IF date_str = "" \/ Len(date_str) < 6 THEN None
        ELSE Text(ParseInt(SubSeq(date_str, 1, 2)), ParseInt(SubSeq(date_str, 3, 4)),
                  ParseInt(SubSeq(date_str, 5, 6)))

\* int(field) if field else 0, with ValueError giving 0.
IntOrZero(field) ==
    LET OrZero(n) == IF n = None THEN 0 ELSE n[1]
    IN  IF field = "" THEN 0 ELSE OrZero(ParseInt(field))

\* float(field) if field else None, with ValueError giving None.
FloatOrNone(field) == IF field = "" THEN None ELSE ParseFloat(field)

\* x * 1.852 on a float: the result counts 1/(1000*Unit).
TimesKnot(x) == IF x.kind = "num" THEN Num(x.v * 1852) ELSE x

\* The speed of _parse_rmc: an empty field is 0 knots.
SpeedKmh(field) ==
    LET Kmh(knots) == IF knots = None THEN None ELSE Some(TimesKnot(knots[1]))
    IN  IF field = "" THEN Some(Num(0)) ELSE Kmh(ParseFloat(field))

\* ------------------------------------------------------------------------
\* PA1010D: sentence parsers.  fs is the record of the ten data attributes;
\* a parser returns the attributes as it leaves them and the exception, if
\* any, that ended it.
\* ------------------------------------------------------------------------

\* fields[i] of Python (0-based).
Fld(fields, i) == fields[i + 1]

Done(fs) == [fs |-> fs, exc |-> "none"]

Failed(fs, e) == [fs |-> fs, exc |-> e]

\* _parse_gga reading the longitude from the latitude's fields.
_parse_gga_same_fields(fs, fields) ==
    LET Store(s1, lat, lon) ==
            IF lat.exc # "none" THEN Failed(s1, lat.exc)
            ELSE IF lon.exc # "none"
            THEN Failed([s1 EXCEPT !.latitude = lat.val], lon.exc)
            ELSE Done([s1 EXCEPT !.latitude = lat.val,
                                 !.longitude = lon.val,
                                 !.fix_quality = IntOrZero(Fld(fields, 6)),
                                 !.satellites = Some(IntOrZero(Fld(fields, 7))),
                                 !.hdop = FloatOrNone(Fld(fields, 8)),
                                 !.altitude = FloatOrNone(Fld(fields, 9))])
    IN  IF Len(fields) < 15 THEN Done(fs)
        ELSE Store([fs EXCEPT !.timestamp = _parse_time(Fld(fields, 1))],
                   _parse_coordinate(Fld(fields, 2), Fld(fields, 3)),
                   _parse_coordinate(Fld(fields, 2), Fld(fields, 3)))

\* _parse_gga reading the time before it tests the number of fields.
_parse_gga_time_first(fs, fields) ==
    LET Store(s1, lat, lon) ==
            IF lat.exc # "none" THEN Failed(s1, lat.exc)
            ELSE IF lon.exc # "none"
            THEN Failed([s1 EXCEPT !.latitude = lat.val], lon.exc)
            ELSE Done([s1 EXCEPT !.latitude = lat.val,
                                 !.longitude = lon.val,
                                 !.fix_quality = IntOrZero(Fld(fields, 6)),
                                 !.satellites = Some(IntOrZero(Fld(fields, 7))),
                                 !.hdop = FloatOrNone(Fld(fields, 8)),
                                 !.altitude = FloatOrNone(Fld(fields, 9))])
        Timed(s1) ==
            IF Len(fields) < 15 THEN Done(s1)
            ELSE Store(s1, _parse_coordinate(Fld(fields, 2), Fld(fields, 3)),
                       _parse_coordinate(Fld(fields, 4), Fld(fields, 5)))
    IN  IF Len(fields) < 2 THEN Done(fs)
        ELSE Timed([fs EXCEPT !.timestamp = _parse_time(Fld(fields, 1))])

\* _parse_gga accepting the fix quality only once a latitude is known from
\* an earlier sentence.
_parse_gga_quality_after_position(fs, fields) ==
    LET Store(s1, lat, lon) ==
            IF lat.exc # "none" THEN Failed(s1, lat.exc)
            ELSE IF lon.exc # "none"
            THEN Failed([s1 EXCEPT !.latitude = lat.val], lon.exc)
            ELSE Done([s1 EXCEPT !.latitude = lat.val,
                                 !.longitude = lon.val,
                                 !.fix_quality = IF s1.latitude = None THEN 0
                                                 ELSE IntOrZero(Fld(fields, 6)),
                                 !.satellites = Some(IntOrZero(Fld(fields, 7))),
                                 !.hdop = FloatOrNone(Fld(fields, 8)),
                                 !.altitude = FloatOrNone(Fld(fields, 9))])
    IN  IF Len(fields) < 15 THEN Done(fs)
        ELSE Store([fs EXCEPT !.timestamp = _parse_time(Fld(fields, 1))],
                   _parse_coordinate(Fld(fields, 2), Fld(fields, 3)),
                   _parse_coordinate(Fld(fields, 4), Fld(fields, 5)))

_parse_gga(fs, fields) ==
    LET Store(s1, lat, lon) ==
            IF lat.exc # "none" THEN Failed(s1, lat.exc)
            ELSE IF lon.exc # "none"
            THEN Failed([s1 EXCEPT !.latitude = lat.val], lon.exc)
            ELSE Done([s1 EXCEPT !.latitude = lat.val,
                                 !.longitude = lon.val,
                                 !.fix_quality = IntOrZero(Fld(fields, 6)),
                                 !.satellites = Some(IntOrZero(Fld(fields, 7))),
                                 !.hdop = FloatOrNone(Fld(fields, 8)),
                                 !.altitude = FloatOrNone(Fld(fields, 9))])
    IN  IF Len(fields) < 15 THEN Done(fs)
        ELSE Store([fs EXCEPT !.timestamp = _parse_time(Fld(fields, 1))],
                   _parse_coordinate(Fld(fields, 2), Fld(fields, 3)),
                   _parse_coordinate(Fld(fields, 4), Fld(fields, 5)))

\* _parse_rmc without the test of the status field.
_parse_rmc_any_status(fs, fields) ==
    LET Store(s1, lat, lon) ==
            IF lat.exc # "none" THEN Failed(s1, lat.exc)
            ELSE IF lon.exc # "none"
            THEN Failed([s1 EXCEPT !.latitude = lat.val], lon.exc)
            ELSE Done([s1 EXCEPT !.latitude = lat.val,
                                 !.longitude = lon.val,
                                 !.speed = SpeedKmh(Fld(fields, 7)),
                                 !.course = FloatOrNone(Fld(fields, 8)),
                                 !.date = _parse_date(Fld(fields, 9))])
        Timed(s1) ==
            Store(s1, _parse_coordinate(Fld(fields, 3), Fld(fields, 4)),
                       _parse_coordinate(Fld(fields, 5), Fld(fields, 6)))
    IN  IF Len(fields) < 12 THEN Done(fs)
        ELSE Timed([fs EXCEPT !.timestamp = _parse_time(Fld(fields, 1))])

\* _parse_rmc testing the status before it reads the time.
_parse_rmc_status_first(fs, fields) ==
    LET Store(s1, lat, lon) ==
            IF lat.exc # "none" THEN Failed(s1, lat.exc)
            ELSE IF lon.exc # "none"
            THEN Failed([s1 EXCEPT !.latitude = lat.val], lon.exc)
            ELSE Done([s1 EXCEPT !.latitude = lat.val,
                                 !.longitude = lon.val,
                                 !.speed = SpeedKmh(Fld(fields, 7)),
                                 !.course = FloatOrNone(Fld(fields, 8)),
                                 !.date = _parse_date(Fld(fields, 9))])
    IN  IF Len(fields) < 12 THEN Done(fs)
        ELSE IF Fld(fields, 2) # "A" THEN Done(fs)
        ELSE Store([fs EXCEPT !.timestamp = _parse_time(Fld(fields, 1))],
                   _parse_coordinate(Fld(fields, 3), Fld(fields, 4)),
                   _parse_coordinate(Fld(fields, 5), Fld(fields, 6)))

\* _parse_rmc taking the fix quality from the status: 1 once an active
\* sentence has given a position.
_parse_rmc_sets_quality(fs, fields) ==
    LET Store(s1, lat, lon) ==
            IF lat.exc # "none" THEN Failed(s1, lat.exc)
            ELSE IF lon.exc # "none"
            THEN Failed([s1 EXCEPT !.latitude = lat.val], lon.exc)
            ELSE Done([s1 EXCEPT !.latitude = lat.val,
                                 !.longitude = lon.val,
                                 !.fix_quality = 1,
                                 !.speed = SpeedKmh(Fld(fields, 7)),
                                 !.course = FloatOrNone(Fld(fields, 8)),
                                 !.date = _parse_date(Fld(fields, 9))])
        Timed(s1) ==
            IF Fld(fields, 2) # "A" THEN Done(s1)
            ELSE Store(s1, _parse_coordinate(Fld(fields, 3), Fld(fields, 4)),
                       _parse_coordinate(Fld(fields, 5), Fld(fields, 6)))
    IN  IF Len(fields) < 12 THEN Done(fs)
        ELSE Timed([fs EXCEPT !.timestamp = _parse_time(Fld(fields, 1))])

\* _parse_rmc keeping a position that is already known.
_parse_rmc_keeps_position(fs, fields) ==
    LET Store(s1, lat, lon) ==
            IF lat.exc # "none" THEN Failed(s1, lat.exc)
            ELSE IF lon.exc # "none"
            THEN Failed([s1 EXCEPT !.latitude = lat.val], lon.exc)
            ELSE Done([s1 EXCEPT !.latitude = IF @ = None THEN lat.val ELSE @,
                                 !.longitude = IF @ = None THEN lon.val ELSE @,
                                 !.speed = SpeedKmh(Fld(fields, 7)),
                                 !.course = FloatOrNone(Fld(fields, 8)),
                                 !.date = _parse_date(Fld(fields, 9))])
        Timed(s1) ==
            IF Fld(fields, 2) # "A" THEN Done(s1)
            ELSE Store(s1, _parse_coordinate(Fld(fields, 3), Fld(fields, 4)),
                       _parse_coordinate(Fld(fields, 5), Fld(fields, 6)))
    IN  IF Len(fields) < 12 THEN Done(fs)
        ELSE Timed([fs EXCEPT !.timestamp = _parse_time(Fld(fields, 1))])

_parse_rmc(fs, fields) ==
    LET Store(s1, lat, lon) ==
            IF lat.exc # "none" THEN Failed(s1, lat.exc)
            ELSE IF lon.exc # "none"
            THEN Failed([s1 EXCEPT !.latitude = lat.val], lon.exc)
            ELSE Done([s1 EXCEPT !.latitude = lat.val,
                                 !.longitude = lon.val,
                                 !.speed = SpeedKmh(Fld(fields, 7)),
                                 !.course = FloatOrNone(Fld(fields, 8)),
                                 !.date = _parse_date(Fld(fields, 9))])
        Timed(s1) ==
            IF Fld(fields, 2) # "A" THEN Done(s1)
            ELSE Store(s1, _parse_coordinate(Fld(fields, 3), Fld(fields, 4)),
                       _parse_coordinate(Fld(fields, 5), Fld(fields, 6)))
    IN  IF Len(fields) < 12 THEN Done(fs)
        ELSE Timed([fs EXCEPT !.timestamp = _parse_time(Fld(fields, 1))])

_parse_sentence(fs, sentence) ==
    LET Typed(fields, sentence_type) ==
            IF sentence_type = "GGA" THEN _parse_gga(fs, fields)
            ELSE IF sentence_type = "RMC" THEN _parse_rmc(fs, fields)
            ELSE Done(fs)
        Dispatch(fields) == Typed(fields, From(Fld(fields, 0), 3))
        Checked(valid) ==
            IF valid.exc # "none" THEN Failed(fs, valid.exc)
            ELSE IF ~valid.val THEN Done(fs)
            ELSE Dispatch(Split(IF Contains(sentence, "*")
                                THEN Split(sentence, "*")[1] ELSE sentence, ","))
    IN  IF ~StartsWith(sentence, "$") THEN Done(fs)
        ELSE Checked(_checksum_valid(sentence))

\* ------------------------------------------------------------------------
\* PA1010D: update
\* ------------------------------------------------------------------------

\* data.decode('utf-8', 'ignore'): the bytes that are not valid UTF-8 are
\* dropped.
RECURSIVE Decode(_)
Decode(data) ==
    IF ~Contains(data, "#") THEN data
    ELSE IF Len(data) = 1 THEN ""
    ELSE Decode(SubSeq(data, 1, Len(data) \div 2)) \o Decode(From(data, Len(data) \div 2))

\* The while loop of update.  d is the driver as the loop has left it so far:
\* the data attributes fs, the buffer, last_sentence, the flag processed, and
\* the lines handed to _parse_sentence (parsed, kept for observation).
RECURSIVE UpdateLoop(_)
UpdateLoop(d) ==
    LET Parsed(rest, line, r) ==
            IF r.exc # "none"
            THEN [d EXCEPT !.buffer = rest, !.last_sentence = line,
                           !.fs = r.fs, !.parsed = Append(d.parsed, line),
                           !.exc = r.exc]
            ELSE UpdateLoop([d EXCEPT !.buffer = rest, !.last_sentence = line,
                                      !.fs = r.fs, !.parsed = Append(d.parsed, line),
                                      !.processed = TRUE])
        Line(rest, line) ==
            IF line = "" THEN UpdateLoop([d EXCEPT !.buffer = rest])
            ELSE Parsed(rest, line, _parse_sentence(d.fs, line))
        Cut(parts) == Line(parts[2], Strip(parts[1]))
    IN  IF ~Contains(d.buffer, "\n") THEN [d EXCEPT !.exc = "none"]
        ELSE Cut(Split1(d.buffer, "\n"))

\* update() on a driver holding fs, buf and last, when the transport has the
\* bytes data: the driver afterwards, what was parsed, and the outcome.
UpdateOn(fs, buf, last, data) ==
    IF data = ""
    THEN [fs |-> fs, buffer |-> buf, last_sentence |-> last,
          processed |-> FALSE, parsed |-> <<>>, exc |-> "none"]
    ELSE UpdateLoop([fs |-> fs, buffer |-> buf \o Decode(data), last_sentence |-> last,
                     processed |-> FALSE, parsed |-> <<>>, exc |-> "none"])

\* ------------------------------------------------------------------------
\* PA1010D: queries
\* ------------------------------------------------------------------------

\* has_fix without the test of the longitude.
has_fix_latitude_only(fs) == fs.fix_quality > 0 /\ fs.latitude # None

has_fix(fs) == fs.fix_quality > 0 /\ fs.latitude # None /\ fs.longitude # None

get_location(fs) == IF has_fix(fs) THEN <<fs.latitude, fs.longitude>> ELSE <<None, None>>

\* self.satellites or 0
get_satellites(fs) ==
    IF fs.satellites = None \/ fs.satellites = Some(0) THEN 0 ELSE fs.satellites[1]

\* 180 degrees in coordinate units.
HalfTurn == 180 * 60 * Unit

\* The haversine term a of distance_to is exactly 1 when the target is the
\* antipode of the fix.
Antipodal(lat, lon, tlat, tlon) ==
    /\ tlat = -lat
    /\ \/ lat \in {HalfTurn \div 2, -(HalfTurn \div 2)}
       \/ (tlon - lon) % (2 * HalfTurn) = HalfTurn

\* How the float computed for a can compare with 1.0.  Where a is exactly 1
\* the sum of the rounded terms lies within one ulp of 1.0, on either side;
\* elsewhere it is taken to stay below.
RoundingsOfA(lat, lon, tlat, tlon) ==
    IF Antipodal(lat, lon, tlat, tlon) THEN {"at_most_one", "above_one"}
    ELSE {"at_most_one"}

\* distance_to: None without a fix; math.sqrt(1 - a) raises ValueError when
\* a was rounded above 1; otherwise a float, kept as the term it is computed
\* from.
distance_to(fs, target, rounding) ==
    IF ~has_fix(fs) THEN [exc |-> "none", ret |-> "None", val |-> <<>>]
    ELSE IF rounding = "above_one" THEN [exc |-> "ValueError", ret |-> "", val |-> <<>>]
    ELSE [exc |-> "none", ret |-> "float",
          val |-> <<fs.latitude, fs.longitude, Some(target[1]), Some(target[2])>>]

\* bearing_to: None without a fix; otherwise a float (atan2 and % are total).
bearing_to(fs, target) ==
    IF ~has_fix(fs) THEN [exc |-> "none", ret |-> "None", val |-> <<>>]
    ELSE [exc |-> "none", ret |-> "float",
          val |-> <<fs.latitude, fs.longitude, Some(target[1]), Some(target[2])>>]

\* ------------------------------------------------------------------------
\* The transport: what the GPS module sends and how reads cut it up
\* ------------------------------------------------------------------------

\* Two uppercase hex digits.
Hex2(n) == Ch("0123456789ABCDEF", (n \div 16) + 1) \o Ch("0123456789ABCDEF", (n % 16) + 1)

\* A well-formed sentence: $<body>*<checksum of body>.
Sentence(body) == "$" \o body \o "*" \o Hex2(XorChars(body))

\* The same with one checksum digit changed.
Corrupted(body) == "$" \o body \o "*" \o Hex2(Xor(XorChars(body), 1))

GGA_FIX == Sentence("GPGGA,123519,20.0,N,10.0,E,1,08,0.9,545.4,M,,M,,")

GGA_NOFIX == Sentence("GNGGA,123520,,,,,0,00,,,M,,M,,")

GGA_HALF == Sentence("GPGGA,123519,30.0,S,,,2,-3,x,,M,,M,,")

GGA_SHORT == Sentence("GPGGA,123520,40.0,N,50.0,E,1")

GGA_INF == Sentence("GPGGA,123520,inf,N,10.0,E,0,,,,,,,,")

RMC_ACTIVE == Sentence("GPRMC,123519,A,5130.0,N,00024.0,W,22.4,84.4,230394,,")

GGA_LATER == Sentence("GPGGA,123522,50.0,S,60.0,W,1,,,,,,,,")

RMC_LATER == Sentence("GPRMC,123521,A,30.0,N,40.0,E,,,230394,,")

RMC_VOID == Sentence("GPRMC,123520,V,40.0,S,50.0,W,1.0,2.0,240394,,")

RMC_HALF == Sentence("GNRMC,123520,A,,,60.0,E,,x,,,")

RMC_SHORT == Sentence("GPRMC,123520,A,40.0,N")

GSV == Sentence("GPGSV,1,1,00")

BAD_GGA == Corrupted("GPGGA,123520,40.0,N,50.0,E,2,09,1.1,10.0,M,,M,,")

BAD_RMC == Corrupted("GPRMC,123520,A,40.0,N,50.0,E,3,4,050607,,")

NO_STAR == "$GPGGA,123519"

TWO_STARS == "$GPGSV,1*4A*4A"

NON_HEX == "$GPGSV,1*ZZ"

NO_DIGITS == "$GPGSV,1*"

NO_DOLLAR == "XGPGGA,,50.0,N,60.0,E,1,,,,,,,,*" \o Hex2(XorChars("GPGGA,,50.0,N,60.0,E,1,,,,,,,,"))

NO_DOLLAR_STARS == "x*1*2"

\* The lines the module may send.
Lines ==
    {GGA_FIX, GGA_NOFIX, GGA_HALF, GGA_SHORT, GGA_INF, RMC_ACTIVE, RMC_VOID,
     RMC_HALF, RMC_SHORT, GSV, BAD_GGA, BAD_RMC, NO_STAR, TWO_STARS, NON_HEX,
     NO_DIGITS, NO_DOLLAR, NO_DOLLAR_STARS}

\* The lines that also arrive cut in two by the reads.
SplitLines == {GGA_FIX}

\* The pairs of lines that also arrive in one read.
Batches ==
    {<<GGA_FIX, RMC_HALF>>, <<RMC_HALF, GGA_FIX>>, <<BAD_RMC, GGA_NOFIX>>,
     <<TWO_STARS, GGA_NOFIX>>, <<GGA_INF, GSV>>}

\* Where a read cuts a line of SplitLines: before the last checksum digit.
CutAt(l) == Len(l) - 1

\* What one uart.read() can return.
Reads ==
    {"", " \r\n", "#\n"}
    \cup {l \o "\r\n" : l \in Lines}
    \cup {SubSeq(l, 1, CutAt(l)) : l \in SplitLines}
    \cup {From(l, CutAt(l)) \o "\r\n" : l \in SplitLines}
    \cup {b[1] \o "\n" \o b[2] \o "\n" : b \in Batches}
    \cup {SubSeq(GGA_HALF, 1, 9) \o "#" \o From(GGA_HALF, 9) \o "\n"}

\* The texts between "$" and "*" of the sentences given to _checksum_valid.
ChecksumBodies ==
    {"GPGSV,1", "GPGGA,123519", "GNRMC,V", "GPGLL", "AB", "AA", "A", ""}

\* One uppercase and one lowercase hex digit.
Hex1(n) == Ch("0123456789ABCDEF", n + 1)

LowerHex2(n) ==
    Ch("0123456789abcdef", (n \div 16) + 1) \o Ch("0123456789abcdef", (n % 16) + 1)

\* The texts that can follow the "*" of a sentence whose body has the XOR x:
\* the two digits in either case, the same with a digit more or less, with a
\* prefix, a sign or a blank, other digits, no digits, other text, and a
\* second "*".
ChecksumTails(x) ==
    {Hex2(x), LowerHex2(x), "0" \o Hex2(x), "0x" \o Hex2(x), "0X" \o Hex2(x),
     "+" \o Hex2(x), " " \o Hex2(x), Hex2(x) \o " ", Hex1(x % 16), Hex2(Xor(x, 1)),
     "", "ZZ", Hex2(x) \o "*" \o Hex2(x)}

\* The sentences given to _checksum_valid.
ChecksumInputs ==
    {"$" \o b : b \in ChecksumBodies}
    \cup UNION {{"$" \o b \o "*" \o t : t \in ChecksumTails(XorChars(b))} :
                b \in ChecksumBodies}

\* The targets the caller asks about: the origin, and the antipode of the
\* fix of GGA_FIX.
Targets == {<<0, 0>>, <<-200000, 100000 - HalfTurn>>}

\* ------------------------------------------------------------------------
\* The driver as a state machine
\* ------------------------------------------------------------------------

VARIABLES
    latitude, longitude, altitude, speed, course, satellites, hdop,
    fix_quality, timestamp, date,   \* the data attributes set by __init__
    buffer,                         \* self._buffer
    last_sentence,                  \* self.last_sentence
    received,                       \* the bytes the last update() read
    parsed,                         \* the lines the last update() handed to _parse_sentence
    outcome                         \* the last call: its name, exception and return value

fixvars ==
    <<latitude, longitude, altitude, speed, course, satellites, hdop,
      fix_quality, timestamp, date>>

drivervars == <<fixvars, buffer, last_sentence>>

vars == <<drivervars, received, parsed, outcome>>

\* The data attributes as one record.
FixState ==
    [latitude |-> latitude, longitude |-> longitude, altitude |-> altitude,
     speed |-> speed, course |-> course, satellites |-> satellites,
     hdop |-> hdop, fix_quality |-> fix_quality, timestamp |-> timestamp,
     date |-> date]

\* The data attributes after the step.
FixStateNext ==
    [latitude |-> latitude', longitude |-> longitude', altitude |-> altitude',
     speed |-> speed', course |-> course', satellites |-> satellites',
     hdop |-> hdop', fix_quality |-> fix_quality', timestamp |-> timestamp',
     date |-> date']

SetFixState(fs) ==
    /\ latitude' = fs.latitude
    /\ longitude' = fs.longitude
    /\ altitude' = fs.altitude
    /\ speed' = fs.speed
    /\ course' = fs.course
    /\ satellites' = fs.satellites
    /\ hdop' = fs.hdop
    /\ fix_quality' = fs.fix_quality
    /\ timestamp' = fs.timestamp
    /\ date' = fs.date

Outcome(op, exc, ret, val) == [op |-> op, exc |-> exc, ret |-> ret, val |-> val]

Init ==
    /\ latitude = None
    /\ longitude = None
    /\ altitude = None
    /\ speed = None
    /\ course = None
    /\ satellites = None
    /\ hdop = None
    /\ fix_quality = 0
    /\ timestamp = None
    /\ date = None
    /\ buffer = ""
    /\ last_sentence = ""
    /\ received = ""
    /\ parsed = <<>>
    /\ outcome = Outcome("__init__", "none", "None", <<>>)

\* The driver and the observations after an update() that read data and
\* left the driver as d.
Updated(d, data) ==
    /\ SetFixState(d.fs)
    /\ buffer' = d.buffer
    /\ last_sentence' = d.last_sentence
    /\ received' = data
    /\ parsed' = d.parsed
    /\ outcome' = IF d.exc # "none" THEN Outcome("update", d.exc, "", <<>>)
                  ELSE IF d.processed THEN Outcome("update", "none", "True", <<>>)
                  ELSE Outcome("update", "none", "False", <<>>)

\* update() when uart.read() returns data.
Update(data) ==
    /\ Len(buffer) + Len(data) <= MaxBuf
    /\ Updated(UpdateOn(FixState, buffer, last_sentence, data), data)

HasFix ==
    /\ outcome' = Outcome("has_fix", "none",
                          IF has_fix(FixState) THEN "True" ELSE "False", <<>>)
    /\ received' = ""
    /\ parsed' = <<>>
    /\ UNCHANGED drivervars

GetLocation ==
    /\ outcome' = Outcome("get_location", "none", "tuple", get_location(FixState))
    /\ received' = ""
    /\ parsed' = <<>>
    /\ UNCHANGED drivervars

GetSatellites ==
    /\ outcome' = Outcome("get_satellites", "none", "int",
                          <<Some(get_satellites(FixState))>>)
    /\ received' = ""
    /\ parsed' = <<>>
    /\ UNCHANGED drivervars

DistanceTo(target) ==
    /\ \E rounding \in RoundingsOfA(IF latitude = None THEN 0 ELSE latitude[1],
                                    IF longitude = None THEN 0 ELSE longitude[1],
                                    target[1], target[2]) :
           LET r == distance_to(FixState, target, rounding)
           IN  outcome' = Outcome("distance_to", r.exc, r.ret, r.val)
    /\ received' = ""
    /\ parsed' = <<>>
    /\ UNCHANGED drivervars

BearingTo(target) ==
    /\ LET r == bearing_to(FixState, target)
       IN  outcome' = Outcome("bearing_to", r.exc, r.ret, r.val)
    /\ received' = ""
    /\ parsed' = <<>>
    /\ UNCHANGED drivervars

\* _checksum_valid(sentence) called on its own: the outcome records the
\* argument and the result r.
ChecksumChecked(sentence, r) ==
    /\ outcome' = Outcome("_checksum_valid", r.exc,
                          IF r.exc # "none" THEN ""
                          ELSE IF r.val THEN "True" ELSE "False", <<sentence>>)
    /\ received' = ""
    /\ parsed' = <<>>
    /\ UNCHANGED drivervars

ChecksumValid(sentence) == ChecksumChecked(sentence, _checksum_valid(sentence))

\* The driver fed by the transport.
Next == \E data \in Reads : Update(data)

Spec == Init /\ [][Next]_vars

\* The reads of the driver when the caller also queries it: whole sentences.
NavReads ==
    {l \o "\r\n" : l \in {GGA_FIX, GGA_NOFIX, GGA_HALF, RMC_ACTIVE, RMC_VOID, RMC_HALF}}

\* The driver fed by the transport and queried by the caller.
NextNav ==
    \/ \E data \in NavReads : Update(data)
    \/ HasFix
    \/ GetLocation
    \/ GetSatellites
    \/ \E target \in Targets : DistanceTo(target)
    \/ \E target \in Targets : BearingTo(target)

SpecNav == Init /\ [][NextNav]_vars

\* The sentences that carry a position or withdraw it, as the module sends
\* them interleaved.
OrderLines ==
    {GGA_FIX, GGA_LATER, GGA_NOFIX, GGA_HALF, RMC_ACTIVE, RMC_LATER, RMC_VOID,
     RMC_HALF}

\* Those of them short enough for two to arrive in one read.
OrderPairLines == {GGA_LATER, GGA_NOFIX, RMC_LATER, RMC_HALF}

\* The reads of the driver when sentences arrive one by one or two by two,
\* in either order.
OrderReads ==
    {l \o "\r\n" : l \in OrderLines}
    \cup {a \o "\r\n" \o b \o "\r\n" : a, b \in OrderPairLines}

\* update() over the reads of OrderReads.
NextOrder == \E data \in OrderReads : Update(data)

SpecOrder == Init /\ [][NextOrder]_vars

\* The byte streams whose delivery is cut into chunks: two sentences; a line
\* that makes _checksum_valid raise, followed by a sentence; a blank line, a
\* sentence ended by a bare newline and the beginning of another.
Streams ==
    {GGA_LATER \o "\r\n" \o RMC_LATER \o "\r\n",
     TWO_STARS \o "\r\n" \o GGA_NOFIX \o "\r\n",
     " \r\n" \o RMC_HALF \o "\n" \o SubSeq(GGA_FIX, 1, 9)}

\* The data attributes of a driver on which update() has not run.
FreshFixState ==
    [latitude |-> None, longitude |-> None, altitude |-> None, speed |-> None,
     course |-> None, satellites |-> None, hdop |-> None, fix_quality |-> 0,
     timestamp |-> None, date |-> None]

\* The driver and the observations after an update() that read chunk and
\* left the driver as d, when the observations are kept over the calls:
\* received is all that was read so far, parsed all that was handed to
\* _parse_sentence so far.
Delivered(d, chunk) ==
    /\ SetFixState(d.fs)
    /\ buffer' = d.buffer
    /\ last_sentence' = d.last_sentence
    /\ received' = received \o chunk
    /\ parsed' = parsed \o d.parsed
    /\ outcome' = IF d.exc # "none" THEN Outcome("update", d.exc, "", <<>>)
                  ELSE IF d.processed THEN Outcome("update", "none", "True", <<>>)
                  ELSE Outcome("update", "none", "False", <<>>)

\* update() when uart.read() returns the next k bytes of the stream.
UpdateChunk(stream, k) ==
    /\ Len(received) + k <= Len(stream)
    /\ SubSeq(stream, 1, Len(received)) = received
    /\ Len(buffer) + k <= MaxBuf
    /\ Delivered(UpdateOn(FixState, buffer, last_sentence,
                          SubSeq(stream, Len(received) + 1, Len(received) + k)),
                 SubSeq(stream, Len(received) + 1, Len(received) + k))

\* A stream of Streams delivered in chunks of any sizes.
NextChunks == \E stream \in Streams : \E k \in 1..Len(stream) : UpdateChunk(stream, k)

SpecChunks == Init /\ [][NextChunks]_vars

\* _checksum_valid called on every sentence of ChecksumInputs.
NextChecksum == \E sentence \in ChecksumInputs : ChecksumValid(sentence)

SpecChecksum == Init /\ [][NextChecksum]_vars

\* The coordinate tokens given to _parse_coordinate: empty, not a number,
\* positive, zero, negative, padded, and the spellings float() reads as
\* infinity and NaN.
CoordinateTokens ==
    {"", "x", "12x", "0", "20.0", "5130.0", "00024.0", "4807.038", "-20.0",
     "-100.0", "-130.0", "-4807.038", " 30.0 ", "+130.5", "inf", "nan"}

\* The direction fields given to _parse_coordinate.
Directions == {"", "N", "S", "E", "W", "n", "X"}

\* _parse_coordinate(coord_str, direction) called on its own: the outcome
\* records the arguments and the result r.
CoordinateParsed(coord_str, direction, r) ==
    /\ outcome' = Outcome("_parse_coordinate", r.exc,
                          IF r.exc # "none" THEN ""
                          ELSE IF r.val = None THEN "None" ELSE "float",
                          <<coord_str, direction, r.val>>)
    /\ received' = ""
    /\ parsed' = <<>>
    /\ UNCHANGED drivervars

ParseCoordinate(coord_str, direction) ==
    CoordinateParsed(coord_str, direction, _parse_coordinate(coord_str, direction))

\* _parse_coordinate called on every token and direction.
NextCoordinate ==
    \E coord_str \in CoordinateTokens : \E direction \in Directions :
        ParseCoordinate(coord_str, direction)

SpecCoordinate == Init /\ [][NextCoordinate]_vars

\* ------------------------------------------------------------------------
\* Vocabulary of the properties
\* ------------------------------------------------------------------------

\* The step is a call of update().
UpdateStep == outcome'.op = "update"

\* The number of occurrences of c in s.
Count(s, c) == Cardinality(Positions(s, c))

\* The text between the leading character and the first "*".
BodyOf(l) == SubSeq(l, 2, Find(l, "*") - 1)

\* The comma-separated fields of the body: BodyFields(l)[1] is the address
\* (talker and type), BodyFields(l)[i + 1] is field i.
BodyFields(l) == Split(BodyOf(l), ",")

\* l is $<body>*<two hex digits> with the digits the XOR of the body.
WellFormed(l) == Count(l, "*") = 1 /\ l = Sentence(BodyOf(l))

\* l is $<body>*<two hex digits> with digits that are not the XOR of the body.
Mismatching(l) ==
    /\ StartsWith(l, "$")
    /\ Count(l, "*") = 1
    /\ Len(l) = Find(l, "*") + 2
    /\ AllHexDigits(From(l, Find(l, "*")))
    /\ HexDigitsVal(From(l, Find(l, "*"))) # XorChars(BodyOf(l))

\* The three-character type code after the two-character talker prefix.
TypeCode(l) == From(BodyFields(l)[1], 2)

\* A well-formed course-data sentence whose status field is not "A".
VoidRMC(l) ==
    /\ WellFormed(l)
    /\ TypeCode(l) = "RMC"
    /\ Len(BodyFields(l)) >= 3
    /\ BodyFields(l)[3] # "A"

\* Every line the call handed to the parser satisfies P.
AllParsed(P(_)) == parsed' # <<>> /\ \A i \in 1..Len(parsed') : P(parsed'[i])

\* ------------------------------------------------------------------------
\* C1
\* ------------------------------------------------------------------------

\* C1: when update() processes candidate lines that start with '$' and carry
\* a checksum that does not match, no data attribute changes and update()
\* returns True.
C1_MismatchIgnored ==
    [][(UpdateStep /\ AllParsed(Mismatching))
       => (FixStateNext = FixState /\ outcome'.exc = "none" /\ outcome'.ret = "True")]_vars

\* A fix is held, and the last update() processed the corrupted fix-data
\* sentence, which reports another position and quality.
C1_Witness ==
    /\ outcome.op = "update"
    /\ parsed = <<BAD_GGA>>
    /\ outcome.ret = "True"
    /\ latitude = Some(200000)
    /\ fix_quality = 1

\* ------------------------------------------------------------------------
\* C2
\* ------------------------------------------------------------------------

\* C2: processing checksum-valid course-data sentences whose status is not
\* 'A' leaves latitude, longitude, speed, course and date as they were, so
\* has_fix() and get_location() return what they returned before.
C2_VoidRmcKeepsPosition ==
    [][(UpdateStep /\ AllParsed(VoidRMC))
       => (/\ latitude' = latitude
           /\ longitude' = longitude
           /\ speed' = speed
           /\ course' = course
           /\ date' = date
           /\ has_fix(FixStateNext) = has_fix(FixState)
           /\ get_location(FixStateNext) = get_location(FixState))]_vars

\* A fix is held and the void course-data sentence has been processed: the
\* time of day is the sentence's, the position is still the fix's.
C2_Witness ==
    /\ outcome.op = "update"
    /\ parsed = <<RMC_VOID>>
    /\ timestamp = Some("12:35:20.000")
    /\ has_fix(FixState)
    /\ get_location(FixState) = <<Some(200000), Some(100000)>>

\* ------------------------------------------------------------------------
\* C3
\* ------------------------------------------------------------------------

\* C3: has_fix() returns true exactly when fix_quality > 0 and latitude and
\* longitude are both set; get_location() returns (latitude, longitude)
\* exactly then and (None, None) otherwise, never a pair with one None.
C3_HasFixInvariant ==
    /\ (outcome.op = "has_fix"
        => ((outcome.ret = "True")
            <=> (fix_quality > 0 /\ latitude # None /\ longitude # None)))
    /\ (outcome.op = "get_location"
        => (/\ outcome.val = IF fix_quality > 0 /\ latitude # None /\ longitude # None
                             THEN <<latitude, longitude>> ELSE <<None, None>>
            /\ (outcome.val[1] = None) <=> (outcome.val[2] = None)))

\* get_location() was asked while the quality is positive and only the
\* latitude is set.
C3_Witness ==
    /\ outcome.op = "get_location"
    /\ fix_quality > 0
    /\ latitude # None
    /\ longitude = None
    /\ outcome.val = <<None, None>>

\* ------------------------------------------------------------------------
\* C4
\* ------------------------------------------------------------------------

\* C4: without a fix distance_to and bearing_to return None for every
\* target, with a fix both return a number, and neither call changes the
\* driver.
C4_NavigationReturns ==
    [][(outcome'.op \in {"distance_to", "bearing_to"})
       => (/\ drivervars' = drivervars
           /\ outcome'.exc = "none"
           /\ (outcome'.ret = "None") <=> ~has_fix(FixState)
           /\ (outcome'.ret = "float") <=> has_fix(FixState))]_vars

\* ------------------------------------------------------------------------
\* C5
\* ------------------------------------------------------------------------

\* The non-empty trimmed lines that text holds, each ended by a newline; the
\* text after the last newline is not one of them.
ExpectedLines(text) ==
    LET pieces == Split(text, "\n")
    IN  SelectSeq([i \in 1..(Len(pieces) - 1) |-> Strip(pieces[i])],
                  LAMBDA x : x # "")

\* C5: characters not yet followed by a newline are never parsed; a line is
\* parsed only in the call of update() in which its newline arrives, so a
\* call that parses starts with no newline in the buffer; and the lines a
\* call parses are, in order, the trimmed texts that the characters buffered
\* and received up to each newline make up.
C5_ParsedWhenNewlineArrives ==
    [][UpdateStep
       => (/\ parsed' # <<>> => ~Contains(buffer, "\n")
           /\ ~Contains(Decode(received'), "\n") => parsed' = <<>>
           /\ (outcome'.exc = "none" /\ received' # "")
              => parsed' = ExpectedLines(buffer \o Decode(received')))]_vars

\* ------------------------------------------------------------------------
\* C6
\* ------------------------------------------------------------------------

\* The read brings no line to an end, or only blank ones.
NoCandidate(buf, data) ==
    \/ data = ""
    \/ ~Contains(Decode(data), "\n")
    \/ ExpectedLines(buf \o Decode(data)) = <<>>

\* C6: update() returns True exactly when it handed a line to the parser; a
\* read of zero bytes, of bytes without a newline, or of blank lines only
\* returns False and leaves the data attributes and last_sentence unchanged.
C6_TrueIffCandidate ==
    [][UpdateStep
       => (/\ (outcome'.exc = "none" /\ outcome'.ret = "True") <=> (parsed' # <<>>)
           /\ NoCandidate(buffer, received')
              => (/\ outcome'.exc = "none"
                  /\ outcome'.ret = "False"
                  /\ FixStateNext = FixState
                  /\ last_sentence' = last_sentence))]_vars

\* ------------------------------------------------------------------------
\* C7
\* ------------------------------------------------------------------------

\* The token and hemisphere make a coordinate.
Parseable(token, hemisphere) ==
    /\ hemisphere # ""
    /\ ParseFloat(token) # None
    /\ ParseFloat(token)[1].kind = "num"

\* The fields of a fix-data sentence of at least 15 fields that reports a
\* quality above 0 and a position.
FixFields(f) ==
    /\ From(f[1], 2) = "GGA"
    /\ Len(f) >= 15
    /\ ParseInt(f[7]) # None
    /\ ParseInt(f[7])[1] > 0
    /\ Parseable(f[3], f[4])
    /\ Parseable(f[5], f[6])

\* A well-formed fix-data sentence with such fields.
FixGGA(l) == WellFormed(l) /\ FixFields(BodyFields(l))

\* The position that the fields of a fix-data sentence decode to.
DecodedPosition(f) ==
    <<_parse_coordinate(f[3], f[4]).val, _parse_coordinate(f[5], f[6]).val>>

\* C7: after a checksum-valid fix-data sentence with at least 15 fields, a
\* quality above 0 and a parseable position has been processed, has_fix() is
\* true and get_location() returns the coordinates decoded from the sentence.
C7_FixGgaGivesLocation ==
    [][(/\ UpdateStep
        /\ outcome'.exc = "none"
        /\ parsed' # <<>>
        /\ FixGGA(parsed'[Len(parsed')]))
       => (/\ has_fix(FixStateNext)
           /\ get_location(FixStateNext)
              = DecodedPosition(BodyFields(parsed'[Len(parsed')])))]_vars

\* The fix-data sentence for 0 deg 20' N, 0 deg 10' E has been processed
\* right after a course-data sentence that left the latitude unset.
C7_Witness ==
    /\ outcome.op = "update"
    /\ parsed = <<RMC_HALF, GGA_FIX>>
    /\ has_fix(FixState)
    /\ get_location(FixState) = <<Some(200000), Some(100000)>>

\* ------------------------------------------------------------------------
\* C8
\* ------------------------------------------------------------------------

\* C8: a call of update() that meets a candidate which is not well formed
\* raises no error and still hands every candidate of the call to the parser.
C8_BadCandidateKeepsBatch ==
    [][(/\ UpdateStep
        /\ \E i \in 1..Len(ExpectedLines(buffer \o Decode(received'))) :
               ~WellFormed(ExpectedLines(buffer \o Decode(received'))[i]))
       => (/\ outcome'.exc = "none"
           /\ parsed' = ExpectedLines(buffer \o Decode(received')))]_vars

\* ------------------------------------------------------------------------
\* C9
\* ------------------------------------------------------------------------

\* C9: latitude and longitude are both set or both unset.
C9_PositionPair == (latitude = None) <=> (longitude = None)

\* ------------------------------------------------------------------------
\* C10
\* ------------------------------------------------------------------------

\* C10: get_satellites() returns a non-negative integer, never None.
C10_SatellitesNonNegative ==
    outcome.op = "get_satellites"
    => (/\ outcome.exc = "none"
        /\ outcome.ret = "int"
        /\ outcome.val[1] # None
        /\ outcome.val[1][1] >= 0)

\* ------------------------------------------------------------------------
\* C11
\* ------------------------------------------------------------------------

\* The last line the call handed to the parser.
LastParsed == parsed'[Len(parsed')]

\* A well-formed course-data sentence of at least 12 fields whose status is
\* not "A".
VoidRMC12(l) == VoidRMC(l) /\ Len(BodyFields(l)) >= 12

\* C11 as stated: processing well-formed course-data sentences of at least 12
\* fields whose status is not 'A' changes no data attribute, the time of day
\* included.
C11_VoidRmcIsNoOp ==
    [][(UpdateStep /\ AllParsed(VoidRMC12)) => FixStateNext = FixState]_vars

\* C11 as amended: such sentences change no data attribute but timestamp,
\* which becomes the time of day of the last of them.
C11_VoidRmcSetsOnlyTime ==
    [][(UpdateStep /\ AllParsed(VoidRMC12))
       => (/\ FixStateNext = [FixState EXCEPT !.timestamp = FixStateNext.timestamp]
           /\ timestamp' = _parse_time(BodyFields(LastParsed)[2]))]_vars

\* The void course-data sentence has been processed while a fix of an
\* earlier second is held: the time of day is now the sentence's.
C11_Witness ==
    /\ outcome.op = "update"
    /\ parsed = <<RMC_VOID>>
    /\ timestamp = Some("12:35:20.000")
    /\ latitude = Some(200000)
    /\ fix_quality = 1
    /\ speed = None

\* ------------------------------------------------------------------------
\* C12
\* ------------------------------------------------------------------------

\* The text after the first "*" of s.
AfterStar(s) == From(s, Find(s, "*"))

\* s holds a "*" followed by exactly two hex digits whose value is the XOR
\* of the characters between the leading character and the "*".
TwoDigitChecksum(s) ==
    /\ Contains(s, "*")
    /\ Len(AfterStar(s)) = 2
    /\ AllHexDigits(AfterStar(s))
    /\ HexDigitsVal(AfterStar(s)) = XorChars(BodyOf(s))

\* C12: _checksum_valid(sentence) returns true exactly when the sentence
\* holds a "*" followed by exactly two hex digits that equal the XOR of the
\* characters between "$" and "*", and reports every other sentence invalid.
C12_ChecksumExactlyTwoDigits ==
    outcome.op = "_checksum_valid"
    => (/\ outcome.exc = "none"
        /\ (outcome.ret = "True") <=> TwoDigitChecksum(outcome.val[1])
        /\ (outcome.ret = "False") <=> ~TwoDigitChecksum(outcome.val[1]))

\* ------------------------------------------------------------------------
\* C13
\* ------------------------------------------------------------------------

\* The field is empty or is not a number.
Unavailable(field) == field = "" \/ ParseFloat(field) = None

\* The fields f (f[1] the address) are those of a fix-data sentence of at
\* least 15 fields, or of a course-data sentence of at least 12 fields with
\* status "A".
FixData(f) == From(f[1], 2) = "GGA" /\ Len(f) >= 15

ActiveCourseData(f) == From(f[1], 2) = "RMC" /\ Len(f) >= 12 /\ f[3] = "A"

\* The measurements left by a sentence of fields f whose fields are empty or
\* not numbers are None.
MeasurementsUnavailable(f) ==
    /\ FixData(f)
       => (/\ Unavailable(f[9]) => hdop' = None
           /\ Unavailable(f[10]) => altitude' = None)
    /\ ActiveCourseData(f)
       => (/\ Unavailable(f[8]) => speed' = None
           /\ Unavailable(f[9]) => course' = None)

\* C13: after a fix-data or active course-data sentence has been applied,
\* each of speed, course, hdop and altitude whose field in the sentence is
\* empty or not a number is None, never 0.
C13_NoZeroDefault ==
    [][(UpdateStep /\ outcome'.exc = "none" /\ parsed' # <<>> /\ WellFormed(LastParsed))
       => MeasurementsUnavailable(BodyFields(LastParsed))]_vars

\* ------------------------------------------------------------------------
\* C14
\* ------------------------------------------------------------------------

\* The fields f (f[1] the address) are of a type other than GGA and RMC, or
\* are too few for their type.
IgnoredFields(f) ==
    \/ From(f[1], 2) \notin {"GGA", "RMC"}
    \/ From(f[1], 2) = "GGA" /\ Len(f) < 15
    \/ From(f[1], 2) = "RMC" /\ Len(f) < 12

\* A well-formed sentence with such fields.
IgnoredSentence(l) == WellFormed(l) /\ IgnoredFields(BodyFields(l))

\* The call ended with a well-formed fix-data sentence of fields f, whatever
\* its talker, and has taken the time of day from it.
FixDataApplied(f) == FixData(f) => timestamp' = _parse_time(f[2])

DispatchType(l) == From(Split(l, ",")[1], 3)

\* A candidate that starts with "$" and carries the type code GGA
\* (respectively RMC), whatever else it holds.
AnyGGA(l) == StartsWith(l, "$") /\ StartsWith(DispatchType(l), "GGA")

AnyRMC(l) == StartsWith(l, "$") /\ StartsWith(DispatchType(l), "RMC")

\* C15: processing fix-data (GGA) sentences leaves speed, course and date
\* unchanged; processing course-data (RMC) sentences, active or void, leaves
\* altitude, satellites, hdop and fix_quality unchanged.
C15_FieldGroupsByType ==
    [][/\ (UpdateStep /\ AllParsed(AnyGGA))
          => (speed' = speed /\ course' = course /\ date' = date)
       /\ (UpdateStep /\ AllParsed(AnyRMC))
          => (/\ altitude' = altitude
              /\ satellites' = satellites
              /\ hdop' = hdop
              /\ fix_quality' = fix_quality)]_vars

\* The active course-data sentence has been processed after a fix-data
\* sentence that reported no fix: the position and the speed are the course
\* sentence's, the quality and the satellite count still the fix sentence's.
C15_Witness ==
    /\ outcome.op = "update"
    /\ parsed = <<RMC_ACTIVE>>
    /\ latitude = Some(51 * 600000 + 300000)
    /\ speed # None
    /\ fix_quality = 0
    /\ satellites = Some(0)

\* ------------------------------------------------------------------------
\* C16
\* ------------------------------------------------------------------------

\* The data attributes that a fix-data sentence of fields f (f[1] the
\* address) writes, as decoded from f.
WrittenByFixData(f) ==
    /\ timestamp' = _parse_time(f[2])
    /\ latitude' = _parse_coordinate(f[3], f[4]).val
    /\ longitude' = _parse_coordinate(f[5], f[6]).val
    /\ fix_quality' = IntOrZero(f[7])
    /\ satellites' = Some(IntOrZero(f[8]))
    /\ hdop' = FloatOrNone(f[9])
    /\ altitude' = FloatOrNone(f[10])

\* The quality field is 0, empty or not a number.
NoFixReported(q) == q = "" \/ ParseInt(q) = None \/ ParseInt(q) = Some(0)

\* What C16 says of a call that ended with a fix-data sentence of fields f.
FixDataOverwrites(f) ==
    FixData(f)
    => (/\ WrittenByFixData(f)
        /\ NoFixReported(f[7]) => (fix_quality' = 0 /\ ~has_fix(FixStateNext)))

\* C16: a well-formed fix-data sentence of at least 15 fields overwrites
\* timestamp, latitude, longitude, fix_quality, satellites, hdop and altitude
\* from its own fields whatever the state before; when its quality field is
\* 0, empty or not a number, fix_quality is 0 and has_fix() is false
\* afterwards.
C16_FixDataOverwrites ==
    [][(UpdateStep /\ parsed' # <<>> /\ WellFormed(LastParsed))
       => FixDataOverwrites(BodyFields(LastParsed))]_vars

\* ------------------------------------------------------------------------
\* C17
\* ------------------------------------------------------------------------

\* The last element of a non-empty sequence.
Last(seq) == seq[Len(seq)]

\* The call returned True.
ReturnedTrue == outcome'.exc = "none" /\ outcome'.ret = "True"

\* C17: after a call of update() that returns True, last_sentence is the
\* last non-empty trimmed line the call extracted; a call that does not
\* return True leaves last_sentence as it was.
C17_LastSentence ==
    [][UpdateStep
       => (/\ ReturnedTrue
              => last_sentence' = Last(ExpectedLines(buffer \o Decode(received')))
           /\ ~ReturnedTrue => last_sentence' = last_sentence)]_vars

\* ------------------------------------------------------------------------
\* C18
\* ------------------------------------------------------------------------

\* The fields of a fix-data sentence of at least 15 fields with a position.
PositionGGA(f) ==
    /\ From(f[1], 2) = "GGA"
    /\ Len(f) >= 15
    /\ Parseable(f[3], f[4])
    /\ Parseable(f[5], f[6])

\* The fields of an active course-data sentence of at least 12 fields with
\* a position.
PositionRMC(f) ==
    /\ From(f[1], 2) = "RMC"
    /\ Len(f) >= 12
    /\ f[3] = "A"
    /\ Parseable(f[4], f[5])
    /\ Parseable(f[6], f[7])

\* A well-formed position-bearing sentence.
PositionBearing(l) ==
    WellFormed(l) /\ (PositionGGA(BodyFields(l)) \/ PositionRMC(BodyFields(l)))

\* The time, latitude and longitude that the fields of a position-bearing
\* sentence decode to.
DecodedFix(f) ==
    IF From(f[1], 2) = "GGA"
    THEN <<_parse_time(f[2]), _parse_coordinate(f[3], f[4]).val,
           _parse_coordinate(f[5], f[6]).val>>
    ELSE <<_parse_time(f[2]), _parse_coordinate(f[4], f[5]).val,
           _parse_coordinate(f[6], f[7]).val>>

\* C18: whatever was processed before, in the same call of update() or in
\* earlier ones, after the call has processed a position-bearing sentence
\* (fix data or active course data) as its last line, timestamp, latitude
\* and longitude are those of that sentence.
C18_LastWriterWins ==
    [][(/\ UpdateStep
        /\ parsed' # <<>>
        /\ PositionBearing(LastParsed))
       => <<timestamp', latitude', longitude'>>
          = DecodedFix(BodyFields(LastParsed))]_vars

\* One call has processed fix data for 12:35:22 and then course data for
\* 12:35:21: the time and the position are those of the course data, the
\* fix quality is that of the fix data.
C18_Witness ==
    /\ outcome.op = "update"
    /\ parsed = <<GGA_LATER, RMC_LATER>>
    /\ fix_quality = 1
    /\ timestamp = Some("12:35:21.000")
    /\ latitude = Some(300000)
    /\ longitude = Some(400000)

\* One call has processed the same two sentences in the other order: the
\* time and the position are those of the fix data.
C18_WitnessOtherOrder ==
    /\ outcome.op = "update"
    /\ parsed = <<RMC_LATER, GGA_LATER>>
    /\ date # None
    /\ timestamp = Some("12:35:22.000")
    /\ latitude = Some(-500000)
    /\ longitude = Some(-600000)

\* ------------------------------------------------------------------------
\* C19
\* ------------------------------------------------------------------------

\* The step is a call of update() that processes exactly the candidate that
\* the previous call of update() processed last.
SameCandidateAgain ==
    /\ outcome.op = "update"
    /\ parsed # <<>>
    /\ UpdateStep
    /\ parsed' = <<Last(parsed)>>

\* C19: processing the same candidate a second time in succession changes
\* neither the data attributes nor last_sentence.
C19_Idempotent ==
    [][SameCandidateAgain
       => FixStateNext = FixState /\ last_sentence' = last_sentence]_vars

\* A call has processed the fix-data sentence alone while course data was
\* known and nothing was pending: reading the sentence again processes it a
\* second time, from this state and back to it.
C19_Witness ==
    /\ outcome.op = "update"
    /\ parsed = <<GGA_FIX>>
    /\ buffer = ""
    /\ last_sentence = GGA_FIX
    /\ fix_quality = 1
    /\ speed # None
    /\ latitude = Some(200000)

\* ------------------------------------------------------------------------
\* C20
\* ------------------------------------------------------------------------

\* The driver and the candidates parsed are as the single call left them.
SameAs(whole) ==
    /\ parsed = whole.parsed
    /\ FixState = whole.fs
    /\ last_sentence = whole.last_sentence
    /\ buffer = whole.buffer

\* C20: however the bytes read so far were cut into non-empty chunks, the
\* candidates parsed, the data attributes, last_sentence and the buffer are
\* those that one update() reading all the bytes leaves on a new driver.
C20_ChunkIndependent ==
    outcome.op = "update" => SameAs(UpdateOn(FreshFixState, "", "", received))

\* ------------------------------------------------------------------------
\* C21
\* ------------------------------------------------------------------------

\* The fields of a fix-data sentence of at least 15 fields that reports a
\* quality above 0.
QualityFields(f) ==
    /\ From(f[1], 2) = "GGA"
    /\ Len(f) >= 15
    /\ ParseInt(f[7]) # None
    /\ ParseInt(f[7])[1] > 0

\* A well-formed fix-data sentence with such fields.
QualityGGA(l) == WellFormed(l) /\ QualityFields(BodyFields(l))

\* The call handed to the parser a line that satisfies P.
SomeParsed(P(_)) == \E i \in 1..Len(parsed') : P(parsed'[i])

\* The step changes fix_quality only by processing fix data.
QualityWrittenByFixData ==
    fix_quality' # fix_quality => UpdateStep /\ SomeParsed(AnyGGA)

\* The step is a query of a driver whose fix quality is not positive, and it
\* gives the answer of a driver without a fix.
NoFixAnswers ==
    fix_quality <= 0
    => (/\ outcome'.op = "has_fix" => outcome'.ret = "False"
        /\ outcome'.op = "get_location" => outcome'.val = <<None, None>>
        /\ outcome'.op \in {"distance_to", "bearing_to"}
           => outcome'.exc = "none" /\ outcome'.ret = "None")

\* The step takes has_fix() from false to true.
FixAcquired == ~has_fix(FixState) /\ has_fix(FixStateNext)

\* C21: fix_quality is written only by fix-data sentences, has_fix() goes
\* from false to true only in a call of update() that processes a fix-data
\* sentence with a quality above 0, and as long as the quality is not
\* positive has_fix() is false, get_location() is (None, None) and
\* distance_to and bearing_to return None.
C21_FixOnlyWhileQualityGga ==
    [][/\ QualityWrittenByFixData
       /\ FixAcquired => UpdateStep /\ SomeParsed(QualityGGA)
       /\ NoFixAnswers]_vars

\* C21 as the code has it: fix_quality is written only by fix-data
\* sentences and becomes positive only in a call of update() that processes
\* a fix-data sentence with a quality above 0; has_fix() goes from false to
\* true only in a call of update() that leaves the quality positive, be it
\* by fix data or by course data that supplies the missing position; as
\* long as the quality is not positive has_fix() is false, get_location()
\* is (None, None) and distance_to and bearing_to return None.
C21_FixOnlyAfterQualityGga ==
    [][/\ QualityWrittenByFixData
       /\ (fix_quality <= 0 /\ fix_quality' > 0)
          => UpdateStep /\ SomeParsed(QualityGGA)
       /\ FixAcquired
          => (/\ UpdateStep
              /\ fix_quality' > 0
              /\ SomeParsed(QualityGGA) \/ SomeParsed(AnyRMC))
       /\ NoFixAnswers]_vars

\* distance_to was asked after active course data had given a position and
\* no fix data had given a positive quality: it returned None.
C21_Witness ==
    /\ outcome.op = "distance_to"
    /\ outcome.ret = "None"
    /\ fix_quality = 0
    /\ latitude # None
    /\ longitude # None
    /\ speed # None

\* has_fix() has become true in a call that processed course data only: the
\* quality 2 came from an earlier fix-data sentence without a longitude.
C21_FixAcquiredByCourseData ==
    /\ outcome.op = "update"
    /\ parsed = <<RMC_ACTIVE>>
    /\ fix_quality = 2
    /\ satellites = Some(-3)
    /\ has_fix(FixState)

\* ------------------------------------------------------------------------
\* C22
\* ------------------------------------------------------------------------

\* The characters of text after its last newline; all of it when it has none.
AfterLastNewline(text) ==
    LET LastOf(P) == IF P = {} THEN 0 ELSE CHOOSE p \in P : \A q \in P : q <= p
    IN  From(text, LastOf(Positions(text, "\n")))

\* C22: after a call of update() that returns normally the buffer has no
\* newline: it holds exactly the characters, of those buffered and those the
\* call received, that follow the last newline.
C22_NoNewlineLeft ==
    [][(UpdateStep /\ outcome'.exc = "none")
       => (/\ ~Contains(buffer', "\n")
           /\ buffer' = AfterLastNewline(buffer \o Decode(received')))]_vars

\* ------------------------------------------------------------------------
\* C23
\* ------------------------------------------------------------------------

\* floor(n / d) for d > 0.
FloorDiv(n, d) == n \div d

\* The token is read as a finite number.
Numeric(token) == ParseFloat(token) # None /\ ParseFloat(token)[1].kind = "num"

\* The token is not read as a number at all.
NonNumeric(token) == ParseFloat(token) = None

\* degrees + minutes / 60 in coordinate units, with degrees the floor of
\* value / 100 and minutes the rest, for a value in units of 1 / Unit.
FloorDecimal(value) ==
    LET Of(degrees) == degrees * 60 * Unit + (value - degrees * 100 * Unit)
    IN  Of(FloorDiv(value, 100 * Unit))

\* What the rule gives for a numeric token and a direction.
FloorCoordinate(token, direction) ==
    IF direction \in {"S", "W"} THEN -FloorDecimal(ParseFloat(token)[1].v)
    ELSE FloorDecimal(ParseFloat(token)[1].v)

\* The call of _parse_coordinate on token and direction returned result as
\* the rule has it.
AsFloorRule(token, direction, exc, result) ==
    /\ (token = "" \/ direction = "" \/ NonNumeric(token))
       => exc = "none" /\ result = None
    /\ (token # "" /\ direction # "" /\ Numeric(token))
       => exc = "none" /\ result = Some(FloorCoordinate(token, direction))

\* C23: for a numeric token, negative ones included, and a non-empty
\* direction _parse_coordinate returns degrees + minutes / 60 with degrees =
\* floor(value / 100) and minutes = value - 100 * degrees, negated exactly
\* for "S" and "W"; it returns None for an empty token, an empty direction or
\* a token that is not a number.
C23_FloorDegrees ==
    outcome.op = "_parse_coordinate"
    => AsFloorRule(outcome.val[1], outcome.val[2], outcome.exc, outcome.val[3])

====
